---- MODULE Spec2Model ----
(***************************************************************************)
(* Model of scripts/update_trends.py: the weekly trend aggregation run.    *)
(*                                                                         *)
(* Representation                                                          *)
(*  - A weight is an integer number of 1e-4 units (0.78 is 7800).          *)
(*  - A keyword is a sequence of atomic terms; "t in keyword" of the       *)
(*    source is the occurrence of the term t in that sequence.  Terms are  *)
(*    written in pinyin / ASCII (jianfei = the term mapped by              *)
(*    SENSITIVE_MAP to suxing, shengdan = the Christmas term, ...).        *)
(*  - A calendar date is <<year, month, day>>.                             *)
(*  - A dict field that may be missing is <<>> (missing) or <<v>>.         *)
(*  - A date string is the sequence of its '-'-separated numeric fields;   *)
(*    "" is <<>>, and a string that is not of the shape Y-M-D is a         *)
(*    sequence whose length is not 3.                                      *)
(***************************************************************************)
EXTENDS Integers, Sequences, FiniteSets, TLC

VARIABLES trends, candi, REGION, TODAY, runs, pc,
          old_items, kept, candidates, admitted, call

vars == <<trends, candi, REGION, TODAY, runs, pc,
          old_items, kept, candidates, admitted, call>>

mainVars == <<trends, candi, REGION, runs, pc,
              old_items, kept, candidates, admitted>>

(* ------------------------------ bounds -------------------------------- *)
MaxRuns == 2
MaxCand == 1

(* ---------------------------- constants ------------------------------- *)
MAX_PER_CATEGORY == 12
MIN_W == 7800
MAX_W == 9600

SENSITIVE_MAP ==
  << [k |-> "jianzhi",  v |-> <<"jiankang", "can">>],
     [k |-> "jianfei",  v |-> <<"suxing">>],
     [k |-> "choujiang", v |-> <<"fuli">>],
     [k |-> "fengxiong", v |-> <<"gaishan_shencai">>],
     [k |-> "touzi",    v |-> <<"licai_silu">>] >>

(* ------------------------- generic helpers ---------------------------- *)
Absent == << >>
Some(v) == << v >>
Get(item, f, default) == IF item[f] = Absent THEN default ELSE item[f][1]

\* F applied to the value of v (v is evaluated once)
Bind(v, F(_)) == CHOOSE r \in {F(x) : x \in {v}} : TRUE

Min2(a, b) == IF a <= b THEN a ELSE b
Max2(a, b) == IF a >= b THEN a ELSE b

\* str.lower() on a term: only the Latin terms have an upper-case form
LowerTerm(t) ==
  CASE t = "OOTD" -> "ootd"
    [] t = "Vlog" -> "vlog"
    [] t = "HIIT" -> "hiit"
    [] OTHER -> t

Lower(kw) == [i \in 1..Len(kw) |-> LowerTerm(kw[i])]

\* "t in kw"
Contains(kw, t) == \E i \in 1..Len(kw) : kw[i] = t
ContainsAny(kw, ts) == \E t \in ts : Contains(kw, t)

(* ------------------------------ dates --------------------------------- *)
IsLeap(y) == (y % 4 = 0 /\ y % 100 # 0) \/ y % 400 = 0

DaysInMonth(y, m) ==
  IF m = 2 THEN (IF IsLeap(y) THEN 29 ELSE 28)
  ELSE IF m \in {4, 6, 9, 11} THEN 30 ELSE 31

\* date comparison d1 <= d2 and d1 < d2
DateLE(d1, d2) ==
  \/ d1[1] < d2[1]
  \/ d1[1] = d2[1] /\ d1[2] < d2[2]
  \/ d1[1] = d2[1] /\ d1[2] = d2[2] /\ d1[3] <= d2[3]

DateLT(d1, d2) == DateLE(d1, d2) /\ d1 # d2

\* datetime.date.fromisoformat: succeeds only on a well-formed, existing date
IsoParses(s) ==
  /\ Len(s) = 3
  /\ s[1] \in 1..9999
  /\ s[2] \in 1..12
  /\ s[3] \in 1..DaysInMonth(s[1], s[2])

(* --------------------------- WeightPolicy ----------------------------- *)
clamp(x, lo, hi) == Max2(lo, Min2(hi, x))

\* Q4 increment (months 10..12)
q4_boost(keyword, today) ==
  IF today[2] \in {10, 11, 12}
     /\ ContainsAny(Lower(keyword), {"qiudong", "qiuji", "dongji", "nianmo", "qingdan"})
  THEN 800 ELSE 0

\* Double-11 increment (Oct 20 .. Nov 15 of today's year)
d1111_boost(keyword, today) ==
  IF DateLE(<<today[1], 10, 20>>, today) /\ DateLE(today, <<today[1], 11, 15>>)
     /\ ContainsAny(keyword, {"shuang11", "dacu", "yushou", "qingdan", "gonglue"})
  THEN 1200 ELSE 0

\* Christmas / New Year increment: window from Dec 1 of today's year to
\* Jan 1 of the year after today's year
xmas_boost(keyword, today) ==
  IF DateLE(<<today[1], 12, 1>>, today) /\ DateLE(today, <<today[1] + 1, 1, 1>>)
     /\ ContainsAny(Lower(keyword), {"shengdan", "kuanian", "paidui", "liwu"})
  THEN 1000 ELSE 0

\* Back-to-school increment (Aug 15 .. Sep 30 and Feb 10 .. Mar 10)
school_boost(keyword, today) ==
  IF ( \/ DateLE(<<today[1], 8, 15>>, today) /\ DateLE(today, <<today[1], 9, 30>>)
       \/ DateLE(<<today[1], 2, 10>>, today) /\ DateLE(today, <<today[1], 3, 10>>) )
     /\ ContainsAny(keyword, {"kaixueji", "xiaoyuan", "tongqin", "shouna", "qingdan"})
  THEN 800 ELSE 0

season_boost(keyword, today) ==
  Min2(q4_boost(keyword, today) + d1111_boost(keyword, today)
       + xmas_boost(keyword, today) + school_boost(keyword, today), 2000)

region_boost(category, keyword, region) ==
  LET k == Lower(keyword) IN
  IF region = "MY" /\ ( category \in {"food", "home"} \/ Contains(k, "kafei")
                        \/ Contains(keyword, "duantu") \/ Contains(keyword, "zhoumo") )
    THEN 400
  ELSE IF region = "SG" /\ ( category \in {"fitness", "fashion"}
                             \/ Contains(keyword, "shouna") \/ Contains(keyword, "tongqin") )
    THEN 400
  ELSE IF region = "CN" /\ ( Contains(keyword, "pingti") \/ Contains(keyword, "qingdan")
                             \/ Contains(keyword, "ceping") )
    THEN 400
  ELSE 0

\* round(x / unit) to the nearest integer, exact ties to the even neighbour
RoundDiv(x, unit) ==
  LET q == x \div unit
      r == x % unit
  IN IF 2 * r < unit THEN q
     ELSE IF 2 * r > unit THEN q + 1
     ELSE IF q % 2 = 0 THEN q ELSE q + 1

\* round(w, 2) of a weight held in 1e-4 units
Round2(w) == 100 * RoundDiv(w, 100)

\* 0.5 ** (days / half_life) to 10 decimal places, as <<hi, lo>> with
\* value (hi * 10^5 + lo) / 10^10
DecayDays == {1, 7, 30}
HalfLives == {1, 7, 10, 100000}
HalfPow(days, half_life) ==
  CASE days = 1  /\ half_life = 1      -> <<50000, 0>>
    [] days = 1  /\ half_life = 7      -> <<90572, 36643>>
    [] days = 1  /\ half_life = 10     -> <<93303, 29915>>
    [] days = 1  /\ half_life = 100000 -> <<99999, 30686>>
    [] days = 7  /\ half_life = 1      -> <<781, 25000>>
    [] days = 7  /\ half_life = 7      -> <<50000, 0>>
    [] days = 7  /\ half_life = 10     -> <<61557, 22067>>
    [] days = 7  /\ half_life = 100000 -> <<99995, 14809>>
    [] days = 30 /\ half_life = 1      -> <<0, 9>>
    [] days = 30 /\ half_life = 7      -> <<5127, 9598>>
    [] days = 30 /\ half_life = 10     -> <<12500, 0>>
    [] days = 30 /\ half_life = 100000 -> <<99979, 20775>>

\* round(w * factor, 4) for w in 1e-4 units and factor = <<hi, lo>>
RoundMul(w, f) ==
  LET a    == w * f[1]
      frac == (a % 100000) * 1000 + (w * f[2]) \div 100
  IN (a \div 100000) + RoundDiv(frac, 100000000)

\* variant: the result is not clamped
decay_weight_unclamped(w, days, half_life) ==
  RoundMul(w, HalfPow(days, half_life))

\* variant: the floor is MIN_W + 0.2
decay_weight_raised_floor(w, days, half_life) ==
  clamp(RoundMul(w, HalfPow(days, half_life)), MIN_W + 2000, 9900)

decay_weight(w, days, half_life) ==
  clamp(RoundMul(w, HalfPow(days, half_life)), MIN_W - 2000, 9900)

(* -------------------------- RecordNormalizer -------------------------- *)
Fields == {"keyword", "weight", "category", "decay_days", "priority",
           "sensitive_hint", "safe_replacement", "expires_at"}

\* a dict with no key set
EmptyItem == [f \in Fields |-> Absent]

SetDefault(item, f, v) == IF item[f] = Absent THEN [item EXCEPT ![f] = Some(v)] ELSE item

\* item["keyword"] raises KeyError when the key is missing
HasKeyword(item) == item.keyword # Absent

RECURSIVE ScanSensitive(_, _)
ScanSensitive(item, i) ==
  IF i > Len(SENSITIVE_MAP) THEN item
  ELSE ScanSensitive(
         IF Contains(item.keyword[1], SENSITIVE_MAP[i].k)
         THEN [item EXCEPT !.sensitive_hint = Some(TRUE),
                           !.safe_replacement = Some(SENSITIVE_MAP[i].v)]
         ELSE item,
         i + 1)

\* defined for items that have a keyword
ensure_fields(item) ==
  ScanSensitive(
    SetDefault(SetDefault(SetDefault(item, "decay_days", 10), "priority", 1),
               "sensitive_hint", FALSE),
    1)

\* truthiness of item.get("safe_replacement"): present and not the empty text
Truthy(field) == field # Absent /\ field[1] # << >>

normalize_keyword(item) ==
  IF Get(item, "sensitive_hint", FALSE) /\ Truthy(item.safe_replacement)
  THEN [item EXCEPT !.keyword = item.safe_replacement,
                    !.sensitive_hint = Some(FALSE),
                    !.safe_replacement = Absent]
  ELSE item

categorize(kw) ==
  LET k == Lower(kw) IN
  IF Contains(k, "ootd") \/ ContainsAny(kw, {"chuanda", "dapei", "dayi", "xue", "yurong"})
    THEN "fashion"
  ELSE IF ContainsAny(kw, {"fendi", "dizhuang", "jinghua", "hufu", "kouhong", "yanying",
                           "saihong", "xiurong", "fase", "hufa", "fangshai"})
    THEN "beauty"
  ELSE IF ContainsAny(kw, {"kafei", "liaoli", "zaocan", "xiaoye", "can", "caipu", "shipu",
                           "hongbei", "meishi", "naicha"})
    THEN "food"
  ELSE IF ContainsAny(kw, {"paobu", "jianshen", "liliang", "yujia", "daka", "HIIT",
                           "pulati", "malasong"})
    THEN "fitness"
  ELSE IF ContainsAny(kw, {"lvxing", "vlog", "luying", "chuxing", "gonglue", "jipiao",
                           "jiudian", "duantu", "zhoumo"})
    THEN "travel"
  ELSE IF ContainsAny(kw, {"mao", "gou", "chongwu", "maohaizi", "chanshi"})
    THEN "pet"
  ELSE IF ContainsAny(kw, {"shuang11", "dacu", "yushou", "qingdan", "haowu", "bimai"})
    THEN "shopping"
  ELSE IF Contains(kw, "qingdan") \/ Contains(kw, "gonglue")
    THEN "shopping"
  ELSE "mixed"

\* one entry of the feed's "data" list -> the candidate built from it;
\* entry.base is the draw 0.84 + random.uniform(0.0, 0.08)
FeedItem(entry, today, region) ==
  LET title == entry.title
      cat   == categorize(title)
      w     == entry.base + season_boost(title, today) + region_boost(cat, title, region)
  IN [EmptyItem EXCEPT !.keyword = Some(title),
                       !.weight = Some(Round2(clamp(w, MIN_W, MAX_W))),
                       !.category = Some(cat),
                       !.decay_days = Some(7),
                       !.priority = Some(2)]

\* feed is Absent (the GET failed: http_get_json returned None) or Some(list
\* of entries); entries with an empty title are skipped
fetch_openhot_xhs(feed, today, region) ==
  IF feed = Absent THEN << >>
  ELSE LET titled == SelectSeq(feed[1], LAMBDA e : e.title # << >>)
       IN [i \in 1..Len(titled) |-> FeedItem(titled[i], today, region)]

(* --------------------------- ExpirationFilter ------------------------- *)
\* variant: a record is dropped on its expiry date already (>= for >)
IsExpiredInclusive(it, today) ==
  /\ Truthy(it.expires_at)
  /\ IsoParses(it.expires_at[1])
  /\ DateLE(it.expires_at[1], today)

\* lines 177-183: the record is skipped iff exp is truthy, parses, and
\* TODAY is later than the parsed date; a parse failure is swallowed
IsExpired(it, today) ==
  LET exp == it.expires_at IN
  /\ Truthy(exp)
  /\ IsoParses(exp[1])
  /\ DateLT(exp[1], today)

(* ------------------------------- Ranker ------------------------------- *)
\* lexicographic order on keys (tuples of integers of one length)
KeyLT(a, b) ==
  \E i \in 1..Len(a) : a[i] < b[i] /\ \A j \in 1..(i - 1) : a[j] = b[j]

\* position of element i in a stable descending sort (list.sort(reverse=True))
Rank(keys, i) ==
  1 + Cardinality({j \in 1..Len(keys) :
                     KeyLT(keys[i], keys[j]) \/ (keys[j] = keys[i] /\ j < i)})

SortDesc(seq, keys) ==
  Bind(<<seq, keys>>, LAMBDA a :
    Bind([i \in 1..Len(a[1]) |-> Rank(a[2], i)], LAMBDA rk :
      [p \in 1..Len(a[1]) |-> a[1][CHOOSE i \in 1..Len(a[1]) : rk[i] = p]]))

\* sort_key of line 190; jitter is the draw random.uniform(-0.015, 0.015)
sort_key(x, jitter) ==
  << Get(x, "weight", 8500) + 400 * Get(x, "priority", 1) + jitter >>

\* key of the per-category sort, line 218
final_key(x) == << Get(x, "weight", 8500), Get(x, "priority", 1) >>

\* variant: no final cut
TruncateNone(arr) == arr

\* arr[:MAX_PER_CATEGORY]
Truncate(arr) == SubSeq(arr, 1, Min2(Len(arr), MAX_PER_CATEGORY))

(* ------------------------- Deduplicator/Merger ------------------------ *)
Category(it) == Get(it, "category", "misc")

\* a record of the prior snapshot is processed without an exception
OldItemOk(it, today) ==
  /\ HasKeyword(it)
  /\ (IsExpired(ensure_fields(it), today) \/ Get(ensure_fields(it), "decay_days", 10) # 0)

\* lines 176 and 184 on a surviving record
DecayItem(it) ==
  LET e == ensure_fields(it) IN
  [e EXCEPT !.weight = Some(decay_weight(Get(e, "weight", 8500), 7,
                                         Get(e, "decay_days", 10)))]

\* the loop of lines 175-185
Kept(items, today) ==
  LET live == SelectSeq(items, LAMBDA it : ~IsExpired(ensure_fields(it), today))
  IN [i \in 1..Len(live) |-> DecayItem(live[i])]

\* variant: <= for <
HasRoomInclusive(arr) == Len(arr) <= MAX_PER_CATEGORY

\* variant: no capacity check at admission
HasRoomAlways(arr) == TRUE

\* len(buckets[cat]) < MAX_PER_CATEGORY
HasRoom(arr) == Len(arr) < MAX_PER_CATEGORY

\* line 209-210: the weight a candidate is admitted with
AdmissionWeight(item, kw, today) ==
  Round2(clamp(Get(item, "weight", 8500)
               + 200 * (IF season_boost(kw, today) > 0 THEN 1 ELSE 0) + 100,
               MIN_W, MAX_W))

\* buckets: st.order lists the keys of the defaultdict in insertion order,
\* st.arr maps a key to its list
BucketOf(st, cat) == IF cat \in DOMAIN st.arr THEN st.arr[cat] ELSE << >>

Touch(st, cat, arr) ==
  [st EXCEPT !.order = IF cat \in DOMAIN st.arr THEN st.order ELSE Append(st.order, cat),
             !.arr = [c \in DOMAIN st.arr \cup {cat} |->
                        IF c = cat THEN arr ELSE st.arr[c]]]

\* lines 198-200: kept records grouped by category, keys in order of first
\* appearance
FirstOfCat(items, i) == \A j \in 1..(i - 1) : Category(items[j]) # Category(items[i])

FillBuckets(st, items) ==
  LET firsts == SelectSeq([i \in 1..Len(items) |-> i], LAMBDA i : FirstOfCat(items, i))
      cats   == {Category(items[i]) : i \in 1..Len(items)}
  IN [st EXCEPT !.order = [n \in 1..Len(firsts) |-> Category(items[firsts[n]])],
                !.arr = [c \in cats |-> SelectSeq(items, LAMBDA it : Category(it) = c)]]

\* one iteration of the loop of lines 202-213 on the candidate at position i
WalkStep(st, raw, i, today) ==
  Bind(normalize_keyword(ensure_fields(raw)), LAMBDA item :
    LET kw   == item.keyword[1]
        cat  == Category(item)
        it2  == [item EXCEPT !.weight = Some(AdmissionWeight(item, kw, today))]
        arr  == BucketOf(st, cat)
    IN IF kw \in st.existing THEN st
       ELSE IF HasRoom(arr)
            THEN [Touch(st, cat, Append(arr, it2))
                    EXCEPT !.existing = st.existing \cup {kw},
                           !.admitted = Append(st.admitted, [idx |-> i, item |-> it2])]
            ELSE Touch(st, cat, arr))

RECURSIVE Walk(_, _, _, _)
Walk(st, cands, i, today) ==
  IF i > Len(cands) THEN st
  ELSE Bind(WalkStep(st, cands[i], i, today), LAMBDA st2 : Walk(st2, cands, i + 1, today))

\* lines 216-219
RECURSIVE Collect(_, _)
Collect(st, n) ==
  IF n > Len(st.order) THEN << >>
  ELSE LET arr == st.arr[st.order[n]]
       IN Truncate(SortDesc(arr, [j \in 1..Len(arr) |-> final_key(arr[j])]))
          \o Collect(st, n + 1)

(* ------------------------------ inputs -------------------------------- *)
Mk(kw, w, cat) ==
  [EmptyItem EXCEPT !.keyword = Some(kw), !.weight = Some(w), !.category = Some(cat)]

\* the i-th record of a well-formed "fashion" block of a prior snapshot
Filler(i) ==
  [Mk(<<"dayi", ToString(i)>>, 9900 - 100 * i, "fashion")
     EXCEPT !.decay_days = Some(IF i % 2 = 0 THEN 100000 ELSE 10),
            !.priority = Some(1),
            !.sensitive_hint = Some(FALSE)]

FillCounts == {0, MAX_PER_CATEGORY - 1, MAX_PER_CATEGORY, MAX_PER_CATEGORY + 1}

\* further records a prior snapshot file may hold
Scenario     == [Mk(<<"qiudong", "chuanda">>, 9000, "fashion") EXCEPT !.decay_days = Some(10)]
SensitiveOld == [EmptyItem EXCEPT !.keyword = Some(<<"jianfei", "can">>),
                                  !.category = Some("food")]
NoKeywordOld == [EmptyItem EXCEPT !.weight = Some(9000), !.category = Some("fashion")]
ExpiringOld  == [Mk(<<"shengdan", "liwu">>, 9500, "shopping")
                   EXCEPT !.expires_at = Some(<<2025, 12, 20>>)]
ExpiringFashion == [Mk(<<"xue">>, 9000, "fashion") EXCEPT !.expires_at = Some(<<2025, 12, 20>>)]
DuplicateOld == Mk(<<"dayi", "1">>, 9300, "fashion")

OldPool ==
  { Scenario, SensitiveOld, NoKeywordOld, ExpiringOld, ExpiringFashion, DuplicateOld,
    [Mk(<<"lvxing">>, 3000, "travel") EXCEPT !.expires_at = Some(<<0>>)],
    [Mk(<<"paobu">>, 15000, "fitness") EXCEPT !.expires_at = Some(<<2025, 2, 30>>),
                                              !.decay_days = Some(100000)],
    [EmptyItem EXCEPT !.keyword = Some(<<"mao">>), !.expires_at = Some(<< >>)],
    [Mk(<<"yurong">>, 9400, "fashion") EXCEPT !.expires_at = Some(<<2025, 10, 1>>),
                                              !.decay_days = Some(0)],
    [Mk(<<"kafei">>, 8000, "food") EXCEPT !.decay_days = Some(0)] }

\* what follows the fashion block in the prior snapshot
OldExtras ==
  {<< >>} \cup {<<r>> : r \in OldPool}
  \cup { <<Scenario, Scenario>>, <<SensitiveOld, ExpiringOld>>, <<ExpiringFashion, Scenario>> }

\* records candidates.json may hold
SensitiveCand == [EmptyItem EXCEPT !.keyword = Some(<<"jianfei", "can">>),
                                   !.category = Some("food")]
HeavyFashion  == [Mk(<<"yurong", "chuanda">>, 9900, "fashion") EXCEPT !.priority = Some(3)]

CandPool ==
  { SensitiveCand, HeavyFashion,
    [EmptyItem EXCEPT !.category = Some("fashion")],
    Mk(<<"qiudong", "chuanda">>, 2000, "fashion"),
    [Mk(<<"naicha">>, 8800, "food") EXCEPT !.safe_replacement = Some(<<"yinpin">>)] }

SeqsUpTo(S, n) == UNION {[1..m -> S] : m \in 0..n}

\* entries the hot-list feed may return (an empty title is skipped); base is
\* the draw 0.84 + random.uniform(0.0, 0.08)
XmasEntry    == [title |-> <<"shengdan", "liwu", "qingdan">>, base |-> 8400]
FashionEntry == [title |-> <<"yurong", "dayi">>, base |-> 9200]
SuxingEntry  == [title |-> <<"suxing">>, base |-> 8800]
BlankEntry   == [title |-> << >>, base |-> 8400]

\* Absent: the GET failed
FeedResults ==
  { Absent, Some(<< >>), Some(<<XmasEntry>>), Some(<<SuxingEntry>>),
    Some(<<BlankEntry, FashionEntry>>), Some(<<XmasEntry, FashionEntry>>) }

Regions == {"GLOBAL", "CN"}

\* random.uniform(-0.015, 0.015): the two extremes
Jitters == {-150, 150}

\* dates on which the script runs, in order
RunDates == << <<2025, 11, 1>>, <<2025, 12, 20>>, <<2026, 1, 1>>,
               <<2026, 2, 15>>, <<2026, 9, 1>> >>
RunDate(n) == RunDates[Min2(n, Len(RunDates))]
NextDate(d) == RunDate(1 + CHOOSE n \in 1..Len(RunDates) : RunDates[n] = d)

NoCall == [fn |-> "none"]

(* ------------------------------- main() ------------------------------- *)
NotRun ==
  /\ runs = 0
  /\ pc = "idle"
  /\ old_items = << >>
  /\ kept = << >>
  /\ candidates = << >>
  /\ admitted = << >>
  /\ call = NoCall

\* one invocation on any of the modelled files, regions and dates
Init ==
  /\ \E n \in FillCounts : \E extra \in OldExtras :
       trends = [week_of |-> RunDate(1), region |-> "GLOBAL",
                 items |-> [i \in 1..n |-> Filler(i)] \o extra]
  /\ candi \in SeqsUpTo(CandPool, MaxCand)
  /\ REGION \in Regions
  /\ TODAY \in {RunDate(1), RunDate(2), RunDate(3)}
  /\ NotRun

\* repeated invocations: each run reads the snapshot the previous one wrote
InitRuns ==
  /\ \E n \in FillCounts : \E extra \in {<< >>, <<ExpiringFashion>>, <<SensitiveOld>>} :
       trends = [week_of |-> RunDate(1), region |-> "GLOBAL",
                 items |-> [i \in 1..n |-> Filler(i)] \o extra]
  /\ candi \in {<< >>, <<HeavyFashion>>, <<HeavyFashion, SensitiveCand>>}
  /\ REGION = "GLOBAL"
  /\ TODAY = RunDate(1)
  /\ NotRun

\* an exception leaves main() before the snapshot is written
Raises(old) ==
  \/ \E i \in 1..Len(candi) : ~HasKeyword(candi[i])
  \/ \E i \in 1..Len(old) : ~OldItemOk(old[i], TODAY)

Run ==
  /\ runs' = runs + 1
  /\ TODAY' = NextDate(TODAY)
  /\ old_items' = trends.items
  /\ UNCHANGED <<candi, REGION, call>>
  /\ IF Raises(trends.items)
     THEN /\ pc' = "crashed"
          /\ kept' = << >>
          /\ candidates' = << >>
          /\ admitted' = << >>
          /\ UNCHANGED trends
     ELSE \E k \in {Kept(trends.items, TODAY)} :
          \E st0 \in {FillBuckets([existing |-> {k[i].keyword[1] : i \in 1..Len(k)},
                                   order |-> << >>, arr |-> << >>,
                                   admitted |-> << >>], k)} :
          \E feed \in FeedResults :
          \E cands0 \in {[i \in 1..Len(candi) |-> ensure_fields(candi[i])]
                         \o fetch_openhot_xhs(feed, TODAY, REGION)} :
          \E jit \in [1..Len(cands0) -> Jitters] :
          \E sorted \in {SortDesc(cands0,
                           [i \in 1..Len(cands0) |-> sort_key(cands0[i], jit[i])])} :
          \E st1 \in {Walk(st0, sorted, 1, TODAY)} :
            /\ pc' = "done"
            /\ kept' = k
            /\ candidates' = sorted
            /\ admitted' = st1.admitted
            /\ trends' = [week_of |-> TODAY, region |-> REGION,
                          items |-> Collect(st1, 1)]

\* a single invocation
MainOnce == runs = 0 /\ Run

\* one of a series of invocations
Main == runs < MaxRuns /\ Run

Next == MainOnce

Spec == Init /\ [][Next]_vars

NextRuns == Main

SpecRuns == InitRuns /\ [][NextRuns]_vars

(* ------------------- pure functions as operations --------------------- *)
MaxWeightStep == 400
Weights == {50 * i : i \in 0..MaxWeightStep}

IdleMain ==
  /\ trends = [week_of |-> RunDate(1), region |-> "GLOBAL", items |-> << >>]
  /\ candi = << >>
  /\ REGION = "GLOBAL"
  /\ runs = 0
  /\ pc = "idle"
  /\ old_items = << >>
  /\ kept = << >>
  /\ candidates = << >>
  /\ admitted = << >>

InitDecay ==
  /\ IdleMain
  /\ TODAY = RunDate(1)
  /\ call \in [fn : {"args"}, w : Weights, days : DecayDays, half_life : HalfLives]

DecayCall ==
  /\ call.fn = "args"
  /\ call' = [fn |-> "decay_weight", w |-> call.w, days |-> call.days,
              half_life |-> call.half_life,
              ret |-> decay_weight(call.w, call.days, call.half_life)]
  /\ UNCHANGED <<mainVars, TODAY>>

SpecDecay == InitDecay /\ [][DecayCall]_vars

SeasonYears == 2024..2026
SeasonDates ==
  {d \in SeasonYears \X (1..12) \X (1..31) : d[3] <= DaysInMonth(d[1], d[2])}

SeasonKeywords ==
  { <<"kuanian", "paidui">>, <<"shengdan", "liwu", "qingdan">>, <<"liwu", "gonglue">>,
    <<"qiudong", "chuanda">>, <<"kaixueji", "shouna">>, <<"shuang11", "qingdan">>,
    <<"naicha">> }

InitSeason ==
  /\ IdleMain
  /\ TODAY \in SeasonDates
  /\ call = NoCall

SeasonCall ==
  /\ call.fn = "none"
  /\ \E kw \in SeasonKeywords :
       call' = [fn |-> "season_boost", keyword |-> kw, ret |-> season_boost(kw, TODAY)]
  /\ UNCHANGED <<mainVars, TODAY>>

SpecSeason == InitSeason /\ [][SeasonCall]_vars

(* ------------------------------ properties ---------------------------- *)
Count(items, c) == Cardinality({i \in 1..Len(items) : Category(items[i]) = c})
OfCat(items, c) == SelectSeq(items, LAMBDA it : Category(it) = c)
Elems(seq) == {seq[i] : i \in 1..Len(seq)}
Cats(items) == {Category(items[i]) : i \in 1..Len(items)}
Keywords(items) == {items[i].keyword : i \in 1..Len(items)}
\* TODAY as the last completed run saw it
RunDay == trends.week_of

\* C1: the items written by main() contain no two items with the same
\* keyword, for every prior snapshot.
C1_GlobalUniqueness ==
  pc = "done" =>
    \A i, j \in 1..Len(trends.items) :
      i # j => trends.items[i].keyword # trends.items[j].keyword

\* C2: every category of the snapshot written by main() has at most
\* MAX_PER_CATEGORY items, also when the prior snapshot held more.
C2_Capacity ==
  pc = "done" => \A c \in Cats(trends.items) : Count(trends.items, c) <= MAX_PER_CATEGORY

C2_Witness ==
  /\ pc = "done"
  /\ Count(kept, "fashion") = MAX_PER_CATEGORY + 1
  /\ Count(trends.items, "fashion") = MAX_PER_CATEGORY

\* C3: when a category's bucket holds exactly MAX_PER_CATEGORY records after
\* expiry and decay, no candidate of that category is admitted (anywhere) and
\* the category's output is exactly those legacy records.
C3_NoEviction ==
  pc = "done" =>
    \A c \in Cats(kept) :
      Count(kept, c) = MAX_PER_CATEGORY =>
        /\ \A i \in 1..Len(candidates) :
             Category(candidates[i]) = c =>
               \A n \in 1..Len(admitted) : admitted[n].idx # i
        /\ Len(OfCat(trends.items, c)) = MAX_PER_CATEGORY
        /\ Elems(OfCat(trends.items, c)) = Elems(OfCat(kept, c))

\* a fresh fashion candidate that outweighs every legacy record meets a full bucket
C3_Witness ==
  /\ pc = "done"
  /\ Count(kept, "fashion") = MAX_PER_CATEGORY
  /\ \E i \in 1..Len(candidates) :
       /\ Category(candidates[i]) = "fashion"
       /\ candidates[i].keyword \notin Keywords(kept)
       /\ \A j \in 1..Len(kept) :
            Get(candidates[i], "weight", 8500) > Get(kept[j], "weight", 8500)

\* C4: a record without a keyword, in the prior snapshot or in the local
\* candidates, does not stop main() from completing and writing a snapshot.
C4_PerItemIsolation ==
  ( /\ runs > 0
    /\ \/ \E i \in 1..Len(old_items) : old_items[i].keyword = Absent
       \/ \E i \in 1..Len(candi) : candi[i].keyword = Absent )
  => pc = "done"

\* C5: no item written by main() carries a safe_replacement field.
C5_NoSafeReplacement ==
  pc = "done" =>
    \A i \in 1..Len(trends.items) : trends.items[i].safe_replacement = Absent

\* C6: a record of the prior snapshot is removed by the expiry step iff its
\* expires_at is present, parses as a valid date and today is strictly later;
\* every other record is kept with its weight decayed.
ClaimedExpired(it, today) ==
  /\ it.expires_at # Absent
  /\ LET s == it.expires_at[1] IN
       /\ Len(s) = 3
       /\ s[2] \in 1..12 /\ s[3] \in 1..DaysInMonth(s[1], s[2])
       /\ ~DateLE(today, s)

C6_ExpiryFailOpen ==
  pc = "done" =>
    LET live == SelectSeq(old_items, LAMBDA it : ~ClaimedExpired(it, RunDay)) IN
    /\ Len(kept) = Len(live)
    /\ \A i \in 1..Len(live) :
         /\ kept[i].keyword = live[i].keyword
         /\ kept[i].expires_at = live[i].expires_at
         /\ kept[i].weight = Some(decay_weight(Get(live[i], "weight", 8500), 7,
                                               Get(live[i], "decay_days", 10)))

\* a record whose expires_at is today's date is kept
C6_Witness ==
  /\ pc = "done"
  /\ \E i \in 1..Len(kept) : kept[i].expires_at = Some(RunDay)

\* C7: an admitted candidate has MIN_W <= weight <= MAX_W and a carried-over
\* legacy record has MIN_W - 0.2 <= weight <= 0.99 in the output.
C7_WeightBounds ==
  pc = "done" =>
    \A i \in 1..Len(trends.items) :
      LET it == trends.items[i] IN
      /\ it.weight # Absent
      /\ IF \E n \in 1..Len(admitted) : admitted[n].item = it
         THEN MIN_W <= it.weight[1] /\ it.weight[1] <= MAX_W
         ELSE MIN_W - 2000 <= it.weight[1] /\ it.weight[1] <= 9900

\* a legacy record whose input weight lay outside the bounds, next to an
\* admitted candidate
C7_Witness ==
  /\ pc = "done"
  /\ Len(admitted) > 0
  /\ \E n \in 1..Len(admitted) : admitted[n].item \in Elems(trends.items)
  /\ \E i \in 1..Len(old_items) :
       /\ old_items[i].weight # Absent
       /\ old_items[i].weight[1] \notin (MIN_W - 2000)..9900
       /\ old_items[i].keyword \in Keywords(trends.items)

\* C8 (as stated): decay_weight(w, days, half_life) <= w for any w, with
\* equality only when the result is the floor MIN_W - 0.2.
C8_DecayMonotoneAnyWeight ==
  call.fn = "decay_weight" =>
    /\ call.ret <= call.w
    /\ (call.ret = call.w => call.ret = MIN_W - 2000)

\* C8 (amended): for w >= MIN_W - 0.2 the result is at most w; a weight below
\* the floor is raised to the floor.
C8_DecayMonotoneAboveFloor ==
  call.fn = "decay_weight" =>
    /\ (call.w >= MIN_W - 2000 => call.ret <= call.w)
    /\ (call.w < MIN_W - 2000 => call.ret = MIN_W - 2000)

\* above the floor, a long half-life rounds back to the input weight
C8_Witness ==
  /\ call.fn = "decay_weight"
  /\ call.w > MIN_W - 2000
  /\ call.ret = call.w

\* C9: a keyword with a Christmas/New-Year term gets that increment on every
\* date from December 1 through January 1 and on no other date; the total
\* is within [0.0, 0.2].
ClaimedXmasWindow(d) == d[2] = 12 \/ (d[2] = 1 /\ d[3] = 1)

C9_XmasWindow ==
  ( /\ call.fn = "season_boost"
    /\ ContainsAny(call.keyword, {"shengdan", "kuanian", "paidui", "liwu"}) )
  => /\ call.ret = Min2(q4_boost(call.keyword, TODAY) + d1111_boost(call.keyword, TODAY)
                        + school_boost(call.keyword, TODAY)
                        + (IF ClaimedXmasWindow(TODAY) THEN 1000 ELSE 0), 2000)
     /\ call.ret \in 0..2000

\* C10: once a category holds MAX_PER_CATEGORY records none of which carries
\* an expires_at, every later run leaves the category's keyword set unchanged
\* and admits no candidate to it.
FullNoExpiry(items, c) ==
  /\ Count(items, c) = MAX_PER_CATEGORY
  /\ \A i \in 1..Len(items) : Category(items[i]) = c => items[i].expires_at = Absent

C10_Step ==
  \A c \in Cats(trends.items) :
    FullNoExpiry(trends.items, c) =>
      /\ FullNoExpiry(trends'.items, c)
      /\ Keywords(OfCat(trends'.items, c)) = Keywords(OfCat(trends.items, c))
      /\ \A n \in 1..Len(admitted') : Category(admitted'[n].item) # c

C10_FrozenCategory == [][C10_Step]_vars

\* second run in a row on a full fashion category, with a fresh fashion
\* candidate on offer
C10_Witness ==
  /\ pc = "done"
  /\ runs >= 2
  /\ FullNoExpiry(old_items, "fashion")
  /\ FullNoExpiry(trends.items, "fashion")
  /\ \E i \in 1..Len(candidates) :
       /\ Category(candidates[i]) = "fashion"
       /\ candidates[i].keyword \notin Keywords(kept)

====
